---- MODULE Spec2Model ----
(***************************************************************************)
(* Model of the reconciliation engine of external-dns (external-dns.go):   *)
(* the desired-state builder, the provider-state filter, the three-way     *)
(* diff and the goroutine-based applier updateRecords, sequenced by        *)
(* UpdateDnsRecords.                                                       *)
(***************************************************************************)
EXTENDS Integers, Sequences, FiniteSets, TLC

VARIABLES
    pc,            \* position of the goroutine running UpdateDnsRecords / of the function under study
    containers,    \* what m.GetContainers() returns: a list of containers
    store,         \* the provider's records: domain name -> DnsRecord
    initialStore,  \* the provider's records when the pass began
    metadataRecs,  \* map[string]DnsRecord built from the metadata
    providerRecs,  \* map[string]DnsRecord read from the provider and filtered
    result,        \* return value of UpdateDnsRecords
    reads,         \* number of provider.GetRecords calls made
    readErr,       \* which read returned an error, if any
    toChange,      \* per operation: the slice handed to updateRecords
    sender,        \* per operation: position of each sender goroutine
    consumer,      \* per operation: position of the consumer goroutine
    held,          \* per operation: index of the record the consumer received
    wg,            \* per operation: the WaitGroup counter
    call,          \* per operation, per record: state of its provider call
    ret            \* per operation: what updateRecords returned to its caller

vars == <<pc, containers, store, initialStore, metadataRecs, providerRecs, result, reads, readErr,
          toChange, sender, consumer, held, wg, call, ret>>

applyVars == <<toChange, sender, consumer, held, wg, call, ret>>

----------------------------------------------------------------------------
(* Strings are sequences of characters, so that strings.ToLower,           *)
(* strings.Join and strings.HasSuffix are computed, not assumed.           *)

Dot == "."

ToLowerChar(c) ==
    CASE c = "W" -> "w"
      [] c = "V" -> "v"
      [] c = "S" -> "s"
      [] c = "E" -> "e"
      [] c = "R" -> "r"
      [] OTHER -> c

ToLower(s) == [i \in DOMAIN s |-> ToLowerChar(s[i])]

RECURSIVE Join(_, _)
Join(parts, sep) ==
    IF Len(parts) = 0 THEN <<>>
    ELSE IF Len(parts) = 1 THEN parts[1]
    ELSE parts[1] \o sep \o Join(Tail(parts), sep)

HasSuffix(s, suffix) ==
    /\ Len(s) >= Len(suffix)
    /\ SubSeq(s, Len(s) - Len(suffix) + 1, Len(s)) = suffix

Range(s) == {s[i] : i \in DOMAIN s}

\* all orders in which a Go map iteration can append the elements of S
Orders(S) ==
    {s \in [1..Cardinality(S) -> S] : \A i, j \in 1..Cardinality(S) : s[i] = s[j] => i = j}

EmptyMap == <<>>

----------------------------------------------------------------------------
(* Configuration globals and the record type.                              *)

EnvironmentName == <<"E">>
RootDomainName == <<"r">>

RecordType == "A"
RecordTTL == 300

DnsRecord(domainName, records) ==
    [DomainName |-> domainName, Records |-> records, Type |-> RecordType, TTL |-> RecordTTL]

Nil == "nil"

----------------------------------------------------------------------------
(* The metadata collaborator: host lookups.                                *)

HostTable == [h1 |-> "ip1", h2 |-> "ip2"]

GetHostFails(hostUUID) == hostUUID \notin DOMAIN HostTable

AgentIP(hostUUID) == HostTable[hostUUID]

----------------------------------------------------------------------------
(* Desired-state builder.                                                  *)

addToDnsEntries(dnsEntry, dnsEntries) ==
    LET records ==
            IF dnsEntry.DomainName \in DOMAIN dnsEntries
            THEN dnsEntry.Records
            ELSE <<>> \o dnsEntry.Records
        entry == DnsRecord(dnsEntry.DomainName, records)
    IN [k \in DOMAIN dnsEntries \cup {entry.DomainName} |->
            IF k = entry.DomainName THEN entry ELSE dnsEntries[k]]

\* the domain name without strings.ToLower
ContainerDomainName_NoLower(container) ==
    Join(<<container.ServiceName, container.StackName,
           EnvironmentName, RootDomainName>>, <<Dot>>)

ContainerDomainName(container) ==
    ToLower(Join(<<container.ServiceName, container.StackName,
                   EnvironmentName, RootDomainName>>, <<Dot>>))

\* the loop body without its test of an empty ServiceName
ContainerSkipped_NoServiceTest(container, serviceName, stackName) ==
    \/ /\ Len(serviceName) # 0
       /\ \/ serviceName # container.ServiceName
          \/ stackName # container.StackName
    \/ container.HostUUID = ""
    \/ GetHostFails(container.HostUUID)

\* TRUE when the loop body reaches a `continue` for this container
ContainerSkipped(container, serviceName, stackName) ==
    \/ Len(container.ServiceName) = 0
    \/ /\ Len(serviceName) # 0
       /\ \/ serviceName # container.ServiceName
          \/ stackName # container.StackName
    \/ container.HostUUID = ""
    \/ GetHostFails(container.HostUUID)

\* one iteration of the loop over the containers
ContainerStep(dnsEntries, container, serviceName, stackName) ==
    IF ContainerSkipped(container, serviceName, stackName)
    THEN dnsEntries
    ELSE addToDnsEntries(
            DnsRecord(ContainerDomainName(container), <<AgentIP(container.HostUUID)>>),
            dnsEntries)

RECURSIVE getContainersDnsRecords(_, _, _, _)
getContainersDnsRecords(cs, dnsEntries, serviceName, stackName) ==
    IF Len(cs) = 0 THEN dnsEntries
    ELSE getContainersDnsRecords(Tail(cs),
            ContainerStep(dnsEntries, Head(cs), serviceName, stackName),
            serviceName, stackName)

getMetadataDnsRecords(cs) == getContainersDnsRecords(cs, EmptyMap, <<>>, <<>>)

----------------------------------------------------------------------------
(* Provider-state reader.                                                  *)

OwnedSuffix == ToLower(Join(<<EnvironmentName, RootDomainName>>, <<Dot>>))

IsOurRecord(value) == HasSuffix(value.DomainName, OwnedSuffix)

\* allRecords: the set of records provider.GetRecords() returned
getProviderDnsRecords(allRecords) ==
    LET ours == {value \in allRecords : IsOurRecord(value)}
    IN [k \in {value.DomainName : value \in ours} |->
            CHOOSE value \in ours : value.DomainName = k]

----------------------------------------------------------------------------
(* Three-way diff.                                                         *)

ToAdd(mRecs, pRecs) ==
    {mRecs[key] : key \in {k \in DOMAIN mRecs : k \notin DOMAIN pRecs}}

\* the loop over providerRecs without its test on metadataRecs
ToRemove_All(mRecs, pRecs) == {pRecs[key] : key \in DOMAIN pRecs}

ToRemove(mRecs, pRecs) ==
    {pRecs[key] : key \in {k \in DOMAIN pRecs : k \notin DOMAIN mRecs}}

\* the comparison made on the value slices instead of the value sets
NeedsUpdate_Ordered(mRec, pRec) == mRec.Records # pRec.Records

\* the comparison with `update` always set
NeedsUpdate_Always(mRec, pRec) == TRUE

\* the comparison without its two membership loops
NeedsUpdate_SizeOnly(mRec, pRec) ==
    Cardinality(Range(mRec.Records)) # Cardinality(Range(pRec.Records))

NeedsUpdate(mRec, pRec) ==
    LET metadataR == Range(mRec.Records)
        providerR == Range(pRec.Records)
    IN IF Cardinality(metadataR) # Cardinality(providerR)
       THEN TRUE
       ELSE \/ \E key \in metadataR : key \notin providerR
            \/ \E key \in providerR : key \notin metadataR

\* the list built from the provider's records instead of the desired ones
ToUpdate_QueuesCurrent(mRecs, pRecs) ==
    {pRecs[key] : key \in {k \in DOMAIN mRecs :
                              k \in DOMAIN pRecs /\ NeedsUpdate(mRecs[k], pRecs[k])}}

ToUpdate(mRecs, pRecs) ==
    {mRecs[key] : key \in {k \in DOMAIN mRecs :
                              k \in DOMAIN pRecs /\ NeedsUpdate(mRecs[k], pRecs[k])}}

----------------------------------------------------------------------------
(* The provider collaborator.                                              *)

GetRecords(st) == {st[k] : k \in DOMAIN st}

\* effect of a successful AddRecord / RemoveRecord / UpdateRecord
ProviderApply(op, rec, st) ==
    IF op = "Remove"
    THEN [k \in DOMAIN st \ {rec.DomainName} |-> st[k]]
    ELSE [k \in DOMAIN st \cup {rec.DomainName} |->
            IF k = rec.DomainName THEN rec ELSE st[k]]

----------------------------------------------------------------------------
(* Inputs of one reconciliation pass.                                      *)

MaxPassContainers == 2
MaxStore == 2

Container(service, stack, host) ==
    [ServiceName |-> service, StackName |-> stack, HostUUID |-> host]

PassInstances ==
    { Container(<<"W">>, <<"s">>, "h1"),
      Container(<<"w">>, <<"s">>, "h2"),
      Container(<<"v">>, <<"s">>, "h1") }

SeqsUpTo(S, n) == UNION {[1..k -> S] : k \in 0..n}

NameW == <<"w", ".", "s", ".", "e", ".", "r">>
NameV == <<"v", ".", "s", ".", "e", ".", "r">>
NameO == <<"o", ".", "s", ".", "e", ".", "r">>
NameGlued == <<"o", ".", "s", "e", ".", "r">>
NameUpper == <<"o", ".", "s", ".", "E", ".", "r">>
NameForeign == <<"o", ".", "s", ".", "e", ".", "x">>

PassRecords ==
    { DnsRecord(NameW, <<"ip1">>), DnsRecord(NameW, <<"ip2">>),
      DnsRecord(NameW, <<"ip1", "ip1">>),
      DnsRecord(NameO, <<"ip1">>), DnsRecord(NameGlued, <<"ip1">>),
      DnsRecord(NameUpper, <<"ip1">>), DnsRecord(NameForeign, <<"ip1">>) }

\* provider contents: at most one record per domain name
StoresOver(recs, n) ==
    { [k \in {r.DomainName : r \in S} |-> CHOOSE r \in S : r.DomainName = k] :
        S \in {T \in SUBSET recs :
                 /\ Cardinality(T) <= n
                 /\ \A a, b \in T : a.DomainName = b.DomainName => a = b} }

Ops == {"Add", "Remove", "Update"}

NoApply == [o \in Ops |-> <<>>]

InitApply ==
    /\ toChange = NoApply
    /\ sender = NoApply
    /\ call = NoApply
    /\ consumer = [o \in Ops |-> "none"]
    /\ held = [o \in Ops |-> 0]
    /\ wg = [o \in Ops |-> 0]
    /\ ret = [o \in Ops |-> "none"]

Init ==
    /\ pc = "start"
    /\ containers \in SeqsUpTo(PassInstances, MaxPassContainers)
    /\ store \in StoresOver(PassRecords, MaxStore)
    /\ initialStore = store
    /\ metadataRecs = EmptyMap
    /\ providerRecs = EmptyMap
    /\ result = "none"
    /\ reads = 0
    /\ readErr = "none"
    /\ InitApply

----------------------------------------------------------------------------
(* UpdateDnsRecords: reading the two states.                               *)

ReadMetadata ==
    /\ pc = "start"
    /\ \E err \in BOOLEAN :
         IF err
         THEN /\ pc' = "done"
              /\ result' = "ErrMetadata"
              /\ readErr' = "metadata"
              /\ UNCHANGED metadataRecs
         ELSE /\ pc' = "readProvider"
              /\ metadataRecs' = getMetadataDnsRecords(containers)
              /\ UNCHANGED <<result, readErr>>
    /\ UNCHANGED <<containers, initialStore, store, providerRecs, reads>>
    /\ UNCHANGED applyVars

\* UpdateDnsRecords without the return at the provider read error
ReadProvider_IgnoreErr ==
    /\ pc = "readProvider"
    /\ reads' = reads + 1
    /\ pc' = "Add"
    /\ \E err \in BOOLEAN :
         IF err
         THEN /\ readErr' = "provider"
              /\ providerRecs' = EmptyMap
         ELSE /\ providerRecs' = getProviderDnsRecords(GetRecords(store))
              /\ UNCHANGED readErr
    /\ UNCHANGED <<containers, initialStore, store, metadataRecs, result>>
    /\ UNCHANGED applyVars

ReadProvider ==
    /\ pc = "readProvider"
    /\ reads' = reads + 1
    /\ \E err \in BOOLEAN :
         IF err
         THEN /\ pc' = "done"
              /\ result' = "ErrProvider"
              /\ readErr' = "provider"
              /\ UNCHANGED providerRecs
         ELSE /\ pc' = "Add"
              /\ providerRecs' = getProviderDnsRecords(GetRecords(store))
              /\ UNCHANGED <<result, readErr>>
    /\ UNCHANGED <<containers, initialStore, store, metadataRecs>>
    /\ UNCHANGED applyVars

----------------------------------------------------------------------------
(* updateRecords: one sender goroutine per record, one consumer goroutine, *)
(* an unbuffered channel and a WaitGroup counting the senders.             *)

\* the list a phase hands to updateRecords, as a set
PhaseSet(op) ==
    CASE op = "Add" -> ToAdd(metadataRecs, providerRecs)
      [] op = "Remove" -> ToRemove(metadataRecs, providerRecs)
      [] op = "Update" -> ToUpdate(metadataRecs, providerRecs)

NextPhase(op) ==
    CASE op = "Add" -> "Remove"
      [] op = "Remove" -> "Update"
      [] op = "Update" -> "done"

PhaseError(op) ==
    CASE op = "Add" -> "ErrAdd"
      [] op = "Remove" -> "ErrRemove"
      [] op = "Update" -> "ErrUpdate"

\* UpdateDnsRecords after a phase returned err
AfterPhase(op, err) ==
    IF err # Nil
    THEN /\ pc' = "done"
         /\ result' = PhaseError(op)
    ELSE /\ pc' = NextPhase(op)
         /\ result' = IF op = "Update" THEN Nil ELSE result

\* updateRecords up to wg.Wait(): the goroutines are started
updateRecordsStart(op, list) ==
    /\ toChange' = [toChange EXCEPT ![op] = list]
    /\ wg' = [wg EXCEPT ![op] = Len(list)]
    /\ sender' = [sender EXCEPT ![op] = [i \in 1..Len(list) |-> "send"]]
    /\ call' = [call EXCEPT ![op] = [i \in 1..Len(list) |-> "none"]]
    /\ consumer' = [consumer EXCEPT ![op] = "recv"]
    /\ UNCHANGED <<held, ret>>

\* addMissingRecords / removeExtraRecords / updateExistingRecords
StartPhase(op) ==
    /\ pc = op
    /\ IF PhaseSet(op) = {}
       THEN /\ AfterPhase(op, Nil)
            /\ UNCHANGED applyVars
       ELSE /\ \E list \in Orders(PhaseSet(op)) : updateRecordsStart(op, list)
            /\ pc' = "wait"
            /\ UNCHANGED result
    /\ UNCHANGED <<containers, initialStore, store, metadataRecs, providerRecs, reads, readErr>>

\* the phase whose updateRecords call the main goroutine is blocked in
Waiting(op) == pc = "wait" /\ consumer[op] # "none" /\ ret[op] = "none"

\* the value of updateRecords' return statement
updateRecordsResult(op) == Nil

\* wg.Wait() returns, updateRecords returns, UpdateDnsRecords goes on
WaitReturn(op) ==
    /\ Waiting(op)
    /\ wg[op] = 0
    /\ ret' = [ret EXCEPT ![op] = updateRecordsResult(op)]
    /\ AfterPhase(op, updateRecordsResult(op))
    /\ UNCHANGED <<containers, initialStore, store, metadataRecs, providerRecs, reads, readErr>>
    /\ UNCHANGED <<toChange, sender, consumer, held, wg, call>>

\* a send that does not wait for the consumer to be back at its receive
Send_WhileCalling(op, i) ==
    /\ i \in DOMAIN sender[op]
    /\ sender[op][i] = "send"
    /\ consumer[op] \in {"recv", "call"}
    /\ sender' = [sender EXCEPT ![op][i] = "sent"]
    /\ consumer' = [consumer EXCEPT ![op] = "got"]
    /\ held' = [held EXCEPT ![op] = i]
    /\ UNCHANGED <<pc, containers, initialStore, store, metadataRecs, providerRecs, result, reads, readErr>>
    /\ UNCHANGED <<toChange, wg, call, ret>>

\* values <- value meets the consumer's receive
Send(op, i) ==
    /\ i \in DOMAIN sender[op]
    /\ sender[op][i] = "send"
    /\ consumer[op] = "recv"
    /\ sender' = [sender EXCEPT ![op][i] = "sent"]
    /\ consumer' = [consumer EXCEPT ![op] = "got"]
    /\ held' = [held EXCEPT ![op] = i]
    /\ UNCHANGED <<pc, containers, initialStore, store, metadataRecs, providerRecs, result, reads, readErr>>
    /\ UNCHANGED <<toChange, wg, call, ret>>

\* the deferred wg.Done() of a sender
SenderDone(op, i) ==
    /\ i \in DOMAIN sender[op]
    /\ sender[op][i] = "sent"
    /\ sender' = [sender EXCEPT ![op][i] = "exit"]
    /\ wg' = [wg EXCEPT ![op] = wg[op] - 1]
    /\ UNCHANGED <<pc, containers, initialStore, store, metadataRecs, providerRecs, result, reads, readErr>>
    /\ UNCHANGED <<toChange, consumer, held, call, ret>>

\* the consumer enters provider.AddRecord / RemoveRecord / UpdateRecord
CallBegin(op) ==
    /\ consumer[op] = "got"
    /\ consumer' = [consumer EXCEPT ![op] = "call"]
    /\ call' = [call EXCEPT ![op][held[op]] = "inflight"]
    /\ UNCHANGED <<pc, containers, initialStore, store, metadataRecs, providerRecs, result, reads, readErr>>
    /\ UNCHANGED <<toChange, sender, held, wg, ret>>

\* the provider call returns; on an error the consumer returns
CallEnd(op) ==
    /\ consumer[op] = "call"
    /\ \E err \in BOOLEAN :
         IF err
         THEN /\ consumer' = [consumer EXCEPT ![op] = "exit"]
              /\ call' = [call EXCEPT ![op][held[op]] = "failed"]
              /\ UNCHANGED store
         ELSE /\ consumer' = [consumer EXCEPT ![op] = "recv"]
              /\ call' = [call EXCEPT ![op][held[op]] = "ok"]
              /\ store' = ProviderApply(op, toChange[op][held[op]], store)
    /\ UNCHANGED <<pc, containers, initialStore, metadataRecs, providerRecs, result, reads, readErr>>
    /\ UNCHANGED <<toChange, sender, held, wg, ret>>

Next ==
    \/ ReadMetadata
    \/ ReadProvider
    \/ \E op \in Ops : StartPhase(op)
    \/ \E op \in Ops : WaitReturn(op)
    \/ \E op \in Ops : \E i \in DOMAIN sender[op] : Send(op, i)
    \/ \E op \in Ops : \E i \in DOMAIN sender[op] : SenderDone(op, i)
    \/ \E op \in Ops : CallBegin(op)
    \/ \E op \in Ops : CallEnd(op)

Spec == Init /\ [][Next]_vars

----------------------------------------------------------------------------
(* The desired-state builder on its own: getMetadataDnsRecords applied to  *)
(* every short list of containers.                                         *)

MaxContainers == 3

Instances ==
    { Container(service, <<"s">>, host) :
        service \in {<<>>, <<"w">>, <<"W">>, <<"v">>},
        host \in {"", "h1", "h2", "hx"} }

InitBuild ==
    /\ pc = "build"
    /\ containers \in SeqsUpTo(Instances, MaxContainers)
    /\ store = EmptyMap
    /\ initialStore = EmptyMap
    /\ metadataRecs = EmptyMap
    /\ providerRecs = EmptyMap
    /\ result = "none"
    /\ reads = 0
    /\ readErr = "none"
    /\ InitApply

Build ==
    /\ pc = "build"
    /\ pc' = "built"
    /\ metadataRecs' = getMetadataDnsRecords(containers)
    /\ UNCHANGED <<containers, initialStore, store, providerRecs, result, reads, readErr>>
    /\ UNCHANGED applyVars

NextBuild == Build

SpecBuild == InitBuild /\ [][NextBuild]_vars

----------------------------------------------------------------------------
(* The three diff functions on their own, over every pair of small record  *)
(* sets.                                                                   *)

DiffNames == {NameW, NameV, NameO}

DiffValues ==
    { <<"ip1">>, <<"ip2">>, <<"ip1", "ip2">>, <<"ip2", "ip1">>, <<"ip1", "ip1">> }

DiffMaps ==
    UNION { [D -> {DnsRecord(k, v) : k \in D, v \in DiffValues}] : D \in SUBSET DiffNames }

WellKeyed(m) == \A k \in DOMAIN m : m[k].DomainName = k

InitDiff ==
    /\ pc = "Add"
    /\ metadataRecs \in {m \in DiffMaps : WellKeyed(m)}
    /\ providerRecs \in {m \in DiffMaps : WellKeyed(m)}
    /\ containers = <<>>
    /\ store = EmptyMap
    /\ initialStore = EmptyMap
    /\ result = "none"
    /\ reads = 0
    /\ readErr = "none"
    /\ InitApply

\* the list one of the three functions builds before it calls updateRecords
DiffPhase(op) ==
    /\ pc = op
    /\ pc' = NextPhase(op)
    /\ \E list \in Orders(PhaseSet(op)) : toChange' = [toChange EXCEPT ![op] = list]
    /\ UNCHANGED <<containers, initialStore, store, metadataRecs, providerRecs, result, reads, readErr>>
    /\ UNCHANGED <<sender, consumer, held, wg, call, ret>>

NextDiff == \E op \in Ops : DiffPhase(op)

SpecDiff == InitDiff /\ [][NextDiff]_vars

----------------------------------------------------------------------------
(* Properties of updateRecords and UpdateDnsRecords.                       *)

Completed(op, i) == call[op][i] \in {"ok", "failed"}

Returned(op) == ret[op] # "none"

Failed(op) == {i \in DOMAIN call[op] : call[op][i] = "failed"}

Issued(op) == {i \in DOMAIN call[op] : call[op][i] # "none"}

Before(op1, op2) ==
    \/ op1 = "Add" /\ op2 \in {"Remove", "Update"}
    \/ op1 = "Remove" /\ op2 = "Update"

\* the records an error value returned by updateRecords names
ErrorRecords(err) == IF err = Nil THEN {} ELSE err

\* no goroutine of the updateRecords call for op can take a step
PhaseQuiescent(op) ==
    /\ consumer[op] \in {"recv", "exit"}
    /\ \A i \in DOMAIN sender[op] : sender[op][i] # "sent"
    /\ consumer[op] = "recv" => \A i \in DOMAIN sender[op] : sender[op][i] # "send"

\* C1: once updateRecords has returned, every provider call for one of its
\* records has completed (none is in flight, none is still to be started).
C1_ReturnAfterAllCalls ==
    \A op \in Ops : Returned(op) => \A i \in DOMAIN call[op] : Completed(op, i)

\* C2: the error updateRecords returns names exactly the records whose
\* provider call failed; it is non-nil whenever one of them failed.
C2_ErrorNamesAllFailures ==
    \A op \in Ops :
        (Returned(op) /\ \A i \in DOMAIN call[op] : Completed(op, i))
            => /\ ErrorRecords(ret[op]) = Failed(op)
               /\ Failed(op) # {} => ret[op] # Nil

\* C3: when the goroutines of an updateRecords call have come to rest, every
\* record of its list has had its one provider call, whatever calls failed.
C3_ExactlyOneCallEach ==
    \A op \in Ops :
        PhaseQuiescent(op) => \A i \in DOMAIN call[op] : Completed(op, i)

\* C4: a provider call of a later phase is issued only when every provider
\* call of each earlier phase has completed.
C4_PhasesSequential ==
    \A op1, op2 \in Ops :
        (Before(op1, op2) /\ Issued(op2) # {})
            => \A i \in DOMAIN call[op1] : Completed(op1, i)

\* C5: after a provider write of a phase failed, no call of a later phase is
\* issued and the pass ends with the error of the failed phase.
C5_FailFastBetweenPhases ==
    \A op1 \in Ops :
        Failed(op1) # {}
            => /\ \A op2 \in Ops : Before(op1, op2) => Issued(op2) = {}
               /\ pc = "done" => result = PhaseError(op1)

\* C6: once updateRecords has returned, its senders and its consumer have
\* all terminated.
C6_NoGoroutineLeft ==
    \A op \in Ops :
        Returned(op) => /\ consumer[op] = "exit"
                        /\ \A i \in DOMAIN sender[op] : sender[op][i] = "exit"

NoWrites == \A op \in Ops : consumer[op] = "none" /\ Issued(op) = {}

\* C7: a failed GetContainers or GetRecords ends the pass with a non-nil
\* error and without any Add/Remove/Update call; after a failed
\* GetContainers the provider was not even read.
C7_ReadFailureAborts ==
    /\ readErr = "metadata"
         => pc = "done" /\ result \notin {"none", Nil} /\ NoWrites /\ reads = 0
    /\ readErr = "provider"
         => pc = "done" /\ result \notin {"none", Nil} /\ NoWrites

\* a pass with work to do for the provider whose provider read failed
C7_Witness ==
    /\ readErr = "provider"
    /\ pc = "done"
    /\ DOMAIN metadataRecs # {}
    /\ DOMAIN store # {}

DottedSuffix ==
    ToLower(<<Dot>> \o EnvironmentName \o <<Dot>> \o RootDomainName)

\* C9: the provider records kept are exactly those whose lower-cased name
\* ends with "." + environmentName + "." + rootDomain, and RemoveRecord
\* is only ever issued for such a record.
C9_OwnershipFilter ==
    /\ pc = "Add" =>
         \A k \in DOMAIN store :
            k \in DOMAIN providerRecs <=> HasSuffix(ToLower(k), DottedSuffix)
    /\ \A i \in Issued("Remove") :
         HasSuffix(ToLower(toChange["Remove"][i].DomainName), DottedSuffix)

----------------------------------------------------------------------------
(* Properties of the desired-state builder.                                *)

Resolved(container) == ~ContainerSkipped(container, <<>>, <<>>)

FirstIndex(s, x) == CHOOSE i \in DOMAIN s : s[i] = x /\ \A j \in 1..(i - 1) : s[j] # x

\* the IPs of the resolved containers of cs whose domain name is d, in order
IPsFor(cs, d) ==
    LET Hit(c) == Resolved(c) /\ ContainerDomainName(c) = d
        hits == SelectSeq(cs, Hit)
    IN [i \in DOMAIN hits |-> AgentIP(hits[i].HostUUID)]

\* C8: the record built for a domain name holds the IP of every resolved
\* container with that name, in order of first occurrence.
C8_MergeKeepsEveryIP ==
    pc = "built" =>
        \A n \in DOMAIN containers :
            Resolved(containers[n]) =>
                LET d == ContainerDomainName(containers[n])
                    ips == IPsFor(containers, d)
                    recs == metadataRecs[d].Records
                IN /\ d \in DOMAIN metadataRecs
                   /\ Range(ips) \subseteq Range(recs)
                   /\ \A x, y \in Range(ips) :
                        FirstIndex(ips, x) < FirstIndex(ips, y)
                            => FirstIndex(recs, x) < FirstIndex(recs, y)

----------------------------------------------------------------------------
(* Properties of the diff.                                                 *)

ListNames(op) == {toChange[op][i].DomainName : i \in DOMAIN toChange[op]}

Unchanged(k) ==
    /\ k \in DOMAIN metadataRecs
    /\ k \in DOMAIN providerRecs
    /\ Range(metadataRecs[k].Records) = Range(providerRecs[k].Records)

\* the number of the four classes toAdd, toRemove, toUpdate, unchanged k is in
ClassCount(k) ==
    Cardinality({op \in Ops : k \in ListNames(op)})
        + (IF Unchanged(k) THEN 1 ELSE 0)

\* C10: the names of toAdd, toRemove and toUpdate are pairwise disjoint and
\* every name of desired or current is in exactly one of toAdd, toRemove,
\* toUpdate and unchanged.
C10_DiffPartition ==
    pc = "done" =>
        /\ \A op1, op2 \in Ops : op1 # op2 => ListNames(op1) \cap ListNames(op2) = {}
        /\ \A k \in DOMAIN metadataRecs \cup DOMAIN providerRecs : ClassCount(k) = 1

\* a diff with something to add, something to remove and something to update
C10_Witness ==
    /\ pc = "done"
    /\ \A op \in Ops : ListNames(op) # {}

SameValues(k) == Range(metadataRecs[k].Records) = Range(providerRecs[k].Records)

InBoth == DOMAIN metadataRecs \cap DOMAIN providerRecs

\* C11: a name of both record sets is queued for update exactly when the
\* two value sets differ, whatever the order and the repetitions of the
\* values, and what is queued is the desired record.
C11_UpdateIffValueSetsDiffer ==
    pc = "done" =>
        /\ \A k \in InBoth : k \in ListNames("Update") <=> ~SameValues(k)
        /\ \A i \in DOMAIN toChange["Update"] :
             LET rec == toChange["Update"][i]
             IN /\ rec.DomainName \in InBoth
                /\ rec = metadataRecs[rec.DomainName]

\* [A,B] against [B,A] and [A,A] against [A] not queued, [A,B] against [A] queued
C11_Witness ==
    /\ pc = "done"
    /\ \E k \in InBoth : /\ metadataRecs[k].Records = <<"ip1", "ip2">>
                         /\ providerRecs[k].Records = <<"ip2", "ip1">>
                         /\ k \notin ListNames("Update")
    /\ \E k \in InBoth : /\ metadataRecs[k].Records = <<"ip1", "ip1">>
                         /\ providerRecs[k].Records = <<"ip1">>
                         /\ k \notin ListNames("Update")
    /\ \E k \in InBoth : /\ metadataRecs[k].Records = <<"ip1", "ip2">>
                         /\ providerRecs[k].Records = <<"ip1">>
                         /\ k \in ListNames("Update")

----------------------------------------------------------------------------
(* Properties of the diff inside a pass.                                   *)

\* the pass has gone through the function that builds the list of op
Computed(op) ==
    /\ readErr = "none"
    /\ \/ consumer[op] # "none"
       \/ \E op2 \in Ops : Before(op, op2) /\ (pc = op2 \/ consumer[op2] # "none")
       \/ pc = "done"

NoRepeat(s) == \A i, j \in DOMAIN s : s[i] = s[j] => i = j

\* C12: toAdd is the desired records with a name absent from current and
\* toRemove the current records with a name absent from desired; with no
\* container and a non-empty current state everything current is removed
\* and only RemoveRecord is called.
C12_AddAndRemoveLists ==
    /\ Computed("Add") =>
         /\ NoRepeat(toChange["Add"])
         /\ \A k \in DOMAIN metadataRecs :
              k \notin DOMAIN providerRecs <=> metadataRecs[k] \in Range(toChange["Add"])
         /\ Range(toChange["Add"]) \subseteq Range(metadataRecs)
    /\ Computed("Remove") =>
         /\ NoRepeat(toChange["Remove"])
         /\ \A k \in DOMAIN providerRecs :
              k \notin DOMAIN metadataRecs <=> providerRecs[k] \in Range(toChange["Remove"])
         /\ Range(toChange["Remove"]) \subseteq Range(providerRecs)
    /\ containers = <<>> =>
         /\ Issued("Add") = {} /\ Issued("Update") = {}
         /\ Computed("Update") =>
              /\ toChange["Add"] = <<>> /\ toChange["Update"] = <<>>
              /\ Range(toChange["Remove"]) = Range(providerRecs)

\* a finished pass without containers that removed a non-empty current state
C12_Witness ==
    /\ containers = <<>>
    /\ pc = "done"
    /\ Cardinality(DOMAIN providerRecs) = 2
    /\ \A i \in DOMAIN call["Remove"] : call["Remove"][i] = "ok"
    /\ Len(toChange["Remove"]) = 2

\* current and desired have the same names and, name by name, the same values
SameState ==
    /\ DOMAIN metadataRecs = DOMAIN providerRecs
    /\ \A k \in DOMAIN metadataRecs : SameValues(k)

\* C13: when the current state read equals the desired state, the three
\* lists are empty, no provider write is made and the pass returns nil.
C13_NoOpWhenEqual ==
    (readErr = "none" /\ pc \notin {"start", "readProvider"} /\ SameState) =>
        /\ \A op \in Ops : toChange[op] = <<>>
        /\ NoWrites
        /\ pc # "wait"
        /\ pc = "done" => result = Nil

\* a finished pass over equal, non-empty states whose value slices differ
C13_Witness ==
    /\ pc = "done"
    /\ readErr = "none"
    /\ SameState
    /\ \E k \in DOMAIN metadataRecs : metadataRecs[k].Records # providerRecs[k].Records

----------------------------------------------------------------------------
(* Properties of the keys of the desired state and of skipped instances.   *)

Pairs(cs) == {<<cs[i].ServiceName, cs[i].StackName>> : i \in DOMAIN cs}

\* lower(serviceName.stackName.environmentName.rootDomain)
LowerName(pair) ==
    ToLower(pair[1] \o <<Dot>> \o pair[2] \o <<Dot>>
                \o EnvironmentName \o <<Dot>> \o RootDomainName)

\* an instance with a service name, a host identifier and a host that is found
Usable(c) ==
    /\ c.ServiceName # <<>>
    /\ c.HostUUID # ""
    /\ c.HostUUID \in DOMAIN HostTable

UsablePairs(cs) == {<<cs[i].ServiceName, cs[i].StackName>> : i \in {j \in DOMAIN cs : Usable(cs[j])}}

\* the pairs of the instances that have a service name
NamedPairs(cs) == {p \in Pairs(cs) : p[1] # <<>>}

\* C14 as stated: one entry per distinct (serviceName, stackName) pair of the
\* list, under the lower-cased name of the pair, and no other entry (read in
\* the claim's favour: pairs without a service name are not counted).
C14_OneEntryPerPair ==
    pc = "built" =>
        /\ Cardinality(DOMAIN metadataRecs) = Cardinality(NamedPairs(containers))
        /\ DOMAIN metadataRecs = {LowerName(p) : p \in NamedPairs(containers)}

\* C14 as amended: the keys are exactly the lower-cased names of the pairs of
\* the instances that are not skipped, one entry per distinct such name, each
\* entry carrying its key as domain name.
C14_OneEntryPerUsableName ==
    pc = "built" =>
        /\ DOMAIN metadataRecs = {LowerName(p) : p \in UsablePairs(containers)}
        /\ Cardinality(DOMAIN metadataRecs)
             = Cardinality({LowerName(p) : p \in UsablePairs(containers)})
        /\ \A k \in DOMAIN metadataRecs : metadataRecs[k].DomainName = k

\* two usable pairs that differ in case only, next to a skipped instance
C14_Witness ==
    /\ pc = "built"
    /\ Cardinality(UsablePairs(containers)) = 2
    /\ Cardinality(Pairs(containers)) = 3
    /\ Cardinality(DOMAIN metadataRecs) = 1

\* C15: the record set built from a list is the one built from the list
\* without its instances that have no service name, no host identifier or
\* a host that is not found; such an instance adds no key and no IP.
C15_SkippedAsIfAbsent ==
    pc = "built" =>
        /\ metadataRecs = getMetadataDnsRecords(SelectSeq(containers, Usable))
        /\ \A k \in DOMAIN metadataRecs :
             \E n \in DOMAIN containers :
                /\ Usable(containers[n])
                /\ LowerName(<<containers[n].ServiceName, containers[n].StackName>>) = k
                /\ Range(metadataRecs[k].Records) \subseteq
                     {HostTable[containers[m].HostUUID] :
                        m \in {j \in DOMAIN containers : Usable(containers[j])}}

\* a list with a usable instance between two skipped ones
C15_Witness ==
    /\ pc = "built"
    /\ Len(containers) = 3
    /\ containers[1].ServiceName = <<>> /\ containers[1].HostUUID = "h2"
    /\ Usable(containers[2]) /\ containers[2].HostUUID = "h1"
    /\ containers[3].ServiceName # <<>> /\ containers[3].HostUUID = "hx"
    /\ DOMAIN metadataRecs # {}

----------------------------------------------------------------------------
(* Termination under a fair scheduler: a goroutine that can run does run.  *)

\* more sender goroutines than one updateRecords call can have
SenderIds == 1..(MaxPassContainers + MaxStore)

Fairness ==
    /\ WF_vars(ReadMetadata)
    /\ WF_vars(ReadProvider)
    /\ \A op \in Ops :
         /\ WF_vars(StartPhase(op))
         /\ WF_vars(WaitReturn(op))
         /\ WF_vars(CallBegin(op))
         /\ WF_vars(CallEnd(op))
         /\ \A i \in SenderIds : WF_vars(Send(op, i)) /\ WF_vars(SenderDone(op, i))

FairSpec == Init /\ [][Next]_vars /\ Fairness

\* C16: every pass returns: UpdateDnsRecords reaches its return, so no
\* updateRecords call keeps its caller in wg.Wait for ever.
C16_PassTerminates == <>(pc = "done")

----------------------------------------------------------------------------
(* Convergence and serialization.                                          *)

AllCallsOk == \A op \in Ops : \A i \in DOMAIN call[op] : call[op][i] = "ok"

\* what the pass would read from the provider now
OwnedNow == getProviderDnsRecords(GetRecords(store))

InFlight(op) == {i \in DOMAIN call[op] : call[op][i] = "inflight"}

\* C18: of the provider calls of one updateRecords call at most one is in
\* flight, and the consumer holds a record exactly while it is not at its
\* receive; the order of the calls is not the order of the list.
C18_OneCallAtATime ==
    \A op \in Ops :
        /\ Cardinality(InFlight(op)) <= 1
        /\ consumer[op] = "call" => InFlight(op) = {held[op]}
        /\ consumer[op] \in {"none", "recv", "got", "exit"} => InFlight(op) = {}

\* the second record of a list already done while the first is in flight
C18_Witness ==
    \E op \in Ops :
        /\ Len(toChange[op]) = 2
        /\ call[op][2] = "ok"
        /\ call[op][1] = "inflight"

====
